---- MODULE Spec2Model ----
(***************************************************************************)
(* A model of softbuffer's CoreGraphics backend (src/cg.rs): the CGImpl   *)
(* surface, its lazily sized pixel buffer, the hand-off of the buffer to  *)
(* the layer's image in present, and the retained native window.          *)
(*                                                                         *)
(* Option<T> is a sequence of length at most one: None is <<>>, Some(x)   *)
(* is <<x>>.  Pixel storage lives in a heap indexed by the identity of    *)
(* the Vec<u32> that owns it, so that two owners of one storage (the      *)
(* surface and a submitted image) are expressible.                        *)
(***************************************************************************)
EXTENDS Integers, Sequences, FiniteSets, TLC

VARIABLES
    status,         \* "none" (before new), "live", "dropped", "aborted", "panicked"
    op,             \* the caller's last step: "none", "new", "resize", "buffer_mut",
                    \* "write", "present" or "drop"
    result,         \* what the last operation returned: "none", "Ok" or "Err"
    window,         \* CGImpl.window: "nil" or "win"
    window_rc,      \* retain count of the native window object
    subviews,       \* number of subviews attached to the window's content view
    width,          \* CGImpl.width
    height,         \* CGImpl.height
    buffer,         \* CGImpl.buffer: Option of the identity of its Vec<u32>
    heap,           \* pixel storage of each Vec<u32>
    view,           \* the outstanding &mut [u32] borrow: Option of [vec, len]
    ca,             \* the CALayer and the CATransaction state
    scale,          \* the window's backingScaleFactor
    last_len,       \* history: length of the last view since the last resize
    host_refs,      \* references to the window the host still holds
    calls,          \* history: number of buffer_mut calls that returned
    frames          \* history: number of presents that found a buffer

vars == <<status, op, result, window, window_rc, subviews, width, height, buffer,
          heap, view, ca, scale, last_len, host_refs, calls, frames>>

----------------------------------------------------------------------------
(* Bounds of the model *)

MaxWidth == 2
MaxHeight == 1
\* number of u32 the allocator can give one Vec before allocation fails
Capacity == 4
\* references the host holds on the window before the surface is constructed
HostRefs == 1
\* buffer_mut calls counted in a run of SpecCounted
MaxCalls == 3

\* a width whose stride does not fit in 32 bits
BigWidth == 2^30

Widths == (0..MaxWidth) \cup {BigWidth}
Heights == 0..MaxHeight
\* 0 is the fill value of buffer_mut; the other value stands for any colour
Pixel == {0, 255 * 65536}
\* identities of Vec<u32> storage: at most two are live at any time, the
\* surface's buffer and the one the layer's image owns
Vecs == {1, 2}
\* backing scale factors of the displays the window can be on
Scales == {1, 2, 3}
\* resize arguments of the specifications that count calls or let the
\* environment act: an empty surface, a one-pixel surface, and a surface too
\* wide for a 32-bit stride and too large to allocate
SmallDims == {<<0, 0>>, <<1, 1>>, <<BigWidth, 1>>}
\* AppKitWindowHandle values handed to new
ValidHandle == [ns_window |-> "win", ns_view |-> "view"]
NullHandle == [ns_window |-> "nil", ns_view |-> "nil"]
Handles == {ValidHandle, NullHandle}

\* TLC's integers are 32-bit: the u32 product width * 4 is wrapped without
\* forming 2^32, since (w * 4) mod 2^32 = (w mod 2^30) * 4
WrappingMul4(w) == (w % (2^30)) * 4
\* the usize product width * height never wraps, both factors being below
\* 2^32; it is formed only when it is within the allocator's capacity
ExceedsCapacity(w, h) == h > 0 /\ w > Capacity \div h

None == <<>>
Some(x) == <<x>>

----------------------------------------------------------------------------
(* Objective-C runtime and Core Animation, as far as cg.rs uses them *)

\* a retain that is never sent
RetainMissing(obj, rc) == rc

\* msg_send![obj, retain]: a message to nil does nothing
Retain(obj, rc) == IF obj = "nil" THEN rc ELSE rc + 1

\* a release that is never sent
ReleaseLeak(obj, rc) == rc

\* msg_send![obj, release]
Release(obj, rc) == IF obj = "nil" THEN rc ELSE rc - 1

\* view.addSubview_(subview)
AddSubview(v, n) == IF v = "nil" THEN n ELSE n + 1

\* a scale factor that is not read from the window again: the layer's
\* contents scale is taken as it is
BackingScaleFactorStale(w) == IF w = "nil" THEN 0 ELSE ca.contents_scale

\* window.backingScaleFactor(): a message to nil returns 0.0
BackingScaleFactor(w) == IF w = "nil" THEN 0 ELSE scale

\* CALayer::new() outside any transaction.  animated records that a layer
\* property was set while implicit actions were enabled; trace holds the
\* Core Animation calls made since the outermost transaction last began
NewLayer ==
    [contents |-> None, contents_scale |-> 1,
     tx_depth |-> 0, disable_actions |-> FALSE, animated |-> FALSE,
     trace |-> <<>>]

\* implicit actions are off: a transaction is open and has disabled them
ActionsDisabled(c) == c.tx_depth > 0 /\ c.disable_actions

\* transaction::begin()
TxBegin(c) ==
    [c EXCEPT !.tx_depth = @ + 1,
              !.trace = IF c.tx_depth = 0 THEN <<"begin">> ELSE Append(@, "begin")]

\* transaction::set_disable_actions(flag)
TxSetDisableActions(c, flag) ==
    [c EXCEPT !.disable_actions = flag,
              !.trace = Append(@, "set_disable_actions")]

\* layer.set_contents_scale(s)
SetContentsScale(c, s) ==
    [c EXCEPT !.contents_scale = s,
              !.animated = @ \/ ~ActionsDisabled(c),
              !.trace = Append(@, "set_contents_scale")]

\* layer.set_contents(image): the implicit action (a fade) runs unless the
\* enclosing transaction disabled actions
SetContents(c, image) ==
    [c EXCEPT !.contents = Some(image),
              !.animated = @ \/ ~ActionsDisabled(c),
              !.trace = Append(@, "set_contents")]

\* transaction::commit(): the transaction's properties end with it
TxCommit(c) ==
    [c EXCEPT !.tx_depth = @ - 1, !.disable_actions = FALSE,
              !.trace = Append(@, "commit")]

----------------------------------------------------------------------------
(* Vec<u32> *)

\* Vec::resize that never truncates
VecResizeGrowOnly(s, n, v) ==
    IF n <= Len(s) THEN s
    ELSE s \o [i \in 1..(n - Len(s)) |-> v]

\* a Vec::resize that truncates from the front
VecResizeKeepTail(s, n, v) ==
    IF n <= Len(s) THEN SubSeq(s, Len(s) - n + 1, Len(s))
    ELSE s \o [i \in 1..(n - Len(s)) |-> v]

\* Vec::resize(new_len, value)
VecResize(s, n, v) ==
    IF n <= Len(s) THEN SubSeq(s, 1, n)
    ELSE s \o [i \in 1..(n - Len(s)) |-> v]

\* an allocator that hands out storage a submitted image still owns
FreeVecsIgnoringImage(buf, c) ==
    Vecs \ {buf[i] : i \in DOMAIN buf}

\* storage no owner refers to
FreeVecs(buf, c) ==
    Vecs \ ({buf[i] : i \in DOMAIN buf}
            \cup {c.contents[i].data : i \in DOMAIN c.contents})

\* Vec::new(): storage of its own; which free storage the allocator gives is
\* immaterial, the model takes the first
VecNew(buf, c) ==
    CHOOSE v \in FreeVecs(buf, c) : \A u \in FreeVecs(buf, c) : v <= u

----------------------------------------------------------------------------
Init ==
    /\ status = "none"
    /\ op = "none"
    /\ result = "none"
    /\ window = "nil"
    /\ window_rc = HostRefs
    /\ subviews = 0
    /\ width = 0
    /\ height = 0
    /\ buffer = None
    /\ heap = [v \in Vecs |-> <<>>]
    /\ view = None
    /\ ca = NewLayer
    /\ scale = 2
    /\ last_len = None
    /\ host_refs = HostRefs
    /\ calls = 0
    /\ frames = 0

\* CGImpl::new
new(handle) ==
    /\ status = "none"
    /\ window' = handle.ns_window
    /\ window_rc' = Retain(handle.ns_window, window_rc)
    /\ ca' = NewLayer
    /\ subviews' = AddSubview(handle.ns_view, subviews)
    /\ width' = 0
    /\ height' = 0
    /\ buffer' = None
    /\ op' = "new"
    /\ result' = "Ok"
    /\ status' = "live"
    /\ UNCHANGED <<heap, view, scale, last_len>>

\* a resize that drops the buffer it finds
resize_eager(w, h) ==
    /\ status = "live"
    /\ width' = w
    /\ height' = h
    /\ heap' = [v \in Vecs |-> IF buffer = Some(v) THEN <<>> ELSE heap[v]]
    /\ buffer' = None
    /\ op' = "resize"
    /\ result' = "Ok"
    /\ view' = None
    /\ last_len' = None
    /\ UNCHANGED <<status, window, window_rc, subviews, ca, scale>>

\* CGImpl::resize
resize(w, h) ==
    /\ status = "live"
    /\ width' = w
    /\ height' = h
    /\ op' = "resize"
    /\ result' = "Ok"
    /\ view' = None
    /\ last_len' = None
    /\ UNCHANGED <<status, window, window_rc, subviews, buffer, heap, ca, scale>>

\* a buffer_mut that sizes the buffer only when it allocates it
buffer_mut_alloc_only ==
    /\ status = "live"
    /\ ~ExceedsCapacity(width, height)
    /\ LET v == IF buffer = None THEN VecNew(buffer, ca) ELSE buffer[1]
       IN /\ buffer' = Some(v)
          /\ heap' = [heap EXCEPT ![v] =
                        IF buffer = None THEN VecResize(<<>>, width * height, 0) ELSE @]
          /\ view' = Some([vec |-> v, len |-> Len(heap'[v])])
          /\ last_len' = Some(Len(heap'[v]))
    /\ op' = "buffer_mut"
    /\ result' = "Ok"
    /\ UNCHANGED <<status, window, window_rc, subviews, width, height, ca, scale>>

\* a buffer_mut that starts from an empty Vec on every call
buffer_mut_realloc ==
    /\ status = "live"
    /\ ~ExceedsCapacity(width, height)
    /\ LET v == IF buffer = None THEN VecNew(buffer, ca) ELSE buffer[1]
       IN /\ buffer' = Some(v)
          /\ heap' = [heap EXCEPT ![v] = VecResize(<<>>, width * height, 0)]
          /\ view' = Some([vec |-> v, len |-> Len(heap'[v])])
          /\ last_len' = Some(Len(heap'[v]))
    /\ op' = "buffer_mut"
    /\ result' = "Ok"
    /\ UNCHANGED <<status, window, window_rc, subviews, width, height, ca, scale>>

\* CGImpl::buffer_mut, when the allocation succeeds: an absent buffer becomes
\* Some(Vec::new()), then the Vec is resized to width * height with 0
buffer_mut ==
    /\ status = "live"
    /\ ~ExceedsCapacity(width, height)
    /\ LET v == IF buffer = None THEN VecNew(buffer, ca) ELSE buffer[1]
           held == [heap EXCEPT ![v] = IF buffer = None THEN <<>> ELSE @]
       IN /\ buffer' = Some(v)
          /\ heap' = [held EXCEPT ![v] = VecResize(@, width * height, 0)]
          /\ view' = Some([vec |-> v, len |-> Len(heap'[v])])
          /\ last_len' = Some(Len(heap'[v]))
    /\ op' = "buffer_mut"
    /\ result' = "Ok"
    /\ UNCHANGED <<status, window, window_rc, subviews, width, height, ca, scale>>

\* CGImpl::buffer_mut, when Vec::resize cannot get the memory: the process aborts
buffer_mut_abort ==
    /\ status = "live"
    /\ ExceedsCapacity(width, height)
    /\ status' = "aborted"
    /\ op' = "buffer_mut"
    /\ result' = "none"
    /\ UNCHANGED <<window, window_rc, subviews, width, height, buffer,
                   heap, view, ca, scale, last_len>>

\* a store through the slice buffer_mut returned, while that borrow lasts
write(i, p) ==
    /\ status = "live"
    /\ view # None
    /\ i \in 1..view[1].len
    /\ heap' = [heap EXCEPT ![view[1].vec][i] = p]
    /\ op' = "write"
    /\ UNCHANGED <<status, result, window, window_rc, subviews, width, height,
                   buffer, view, ca, scale, last_len>>

\* CGImage::new(width, height, 8, 32, bytes_per_row, .., data_provider, ..) over
\* CGDataProvider::from_buffer(Arc::new(Buffer(buffer)))
CGImageNew(w, h, bytes_per_row, v) ==
    [width |-> w, height |-> h, bits_per_component |-> 8, bits_per_pixel |-> 32,
     bytes_per_row |-> bytes_per_row, data |-> v]

\* the layer drops the image it showed, and with it the storage the image owned
ReleaseContents(hp, c, kept) ==
    [v \in Vecs |->
        IF c.contents # None /\ c.contents[1].data = v /\ v \notin kept
        THEN <<>> ELSE hp[v]]

\* self.width * 4 in u32 overflows
StrideOverflows(w) == w >= 2^30

\* a present that submits an image even when there is no buffer
present_always ==
    /\ status = "live"
    /\ LET taken == IF buffer = None THEN VecNew(buffer, ca) ELSE buffer[1]
           image == CGImageNew(width, height, WrappingMul4(width), taken)
       IN /\ buffer' = None
          /\ ca' = TxCommit(SetContents(SetContentsScale(
                       TxSetDisableActions(TxBegin(ca), TRUE),
                       BackingScaleFactor(window)), image))
          /\ heap' = ReleaseContents(heap, ca, {taken})
    /\ op' = "present"
    /\ result' = "Ok"
    /\ view' = None
    /\ UNCHANGED <<status, window, window_rc, subviews, width, height, scale, last_len>>

\* a present that leaves the buffer it submits in the surface
present_keep ==
    /\ status = "live"
    /\ IF buffer # None
       THEN LET taken == buffer[1]
                image == CGImageNew(width, height, WrappingMul4(width), taken)
            IN /\ buffer' = buffer
               /\ ca' = TxCommit(SetContents(SetContentsScale(
                            TxSetDisableActions(TxBegin(ca), TRUE),
                            BackingScaleFactor(window)), image))
               /\ heap' = ReleaseContents(heap, ca, {taken})
       ELSE UNCHANGED <<buffer, ca, heap>>
    /\ op' = "present"
    /\ result' = "Ok"
    /\ view' = None
    /\ UNCHANGED <<status, window, window_rc, subviews, width, height, scale, last_len>>

\* a present that disables the implicit actions only after it has set the
\* layer's contents
present_late_disable ==
    /\ status = "live"
    /\ IF buffer # None
       THEN LET taken == buffer[1]
                image == CGImageNew(width, height, WrappingMul4(width), taken)
            IN /\ buffer' = None
               /\ ca' = TxCommit(TxSetDisableActions(SetContents(SetContentsScale(
                            TxBegin(ca), BackingScaleFactor(window)), image), TRUE))
               /\ heap' = ReleaseContents(heap, ca, {taken})
       ELSE UNCHANGED <<buffer, ca, heap>>
    /\ op' = "present"
    /\ result' = "Ok"
    /\ view' = None
    /\ UNCHANGED <<status, window, window_rc, subviews, width, height, scale, last_len>>

\* CGImpl::present; where self.width * 4 overflows, this is the build without
\* overflow checks, in which the stride wraps, and present_panic the build
\* with them
present ==
    /\ status = "live"
    /\ IF buffer # None
       THEN LET taken == buffer[1]
                image == CGImageNew(width, height, WrappingMul4(width), taken)
            IN /\ buffer' = None
               /\ ca' = TxCommit(SetContents(SetContentsScale(
                            TxSetDisableActions(TxBegin(ca), TRUE),
                            BackingScaleFactor(window)), image))
               /\ heap' = ReleaseContents(heap, ca, {taken})
       ELSE UNCHANGED <<buffer, ca, heap>>
    /\ op' = "present"
    /\ result' = "Ok"
    /\ view' = None
    /\ UNCHANGED <<status, window, window_rc, subviews, width, height, scale, last_len>>

\* CGImpl::present in a build with overflow checks: self.width * 4 panics,
\* after the buffer was taken; unwinding drops the taken buffer, and the
\* panic ends the thread that owns the surface
present_panic ==
    /\ status = "live"
    /\ buffer # None
    /\ StrideOverflows(width)
    /\ buffer' = None
    /\ heap' = [heap EXCEPT ![buffer[1]] = <<>>]
    /\ view' = None
    /\ status' = "panicked"
    /\ op' = "present"
    /\ result' = "none"
    /\ UNCHANGED <<window, window_rc, subviews, width, height, ca, scale, last_len>>

\* Drop for CGImpl, then the drop of its fields: the buffer's storage is freed;
\* the layer stays in the view hierarchy with its contents
drop ==
    /\ status = "live"
    /\ window_rc' = Release(window, window_rc)
    /\ heap' = [v \in Vecs |-> IF buffer = Some(v) THEN <<>> ELSE heap[v]]
    /\ buffer' = None
    /\ view' = None
    /\ last_len' = None
    /\ width' = 0
    /\ height' = 0
    /\ status' = "dropped"
    /\ op' = "drop"
    /\ UNCHANGED <<result, window, subviews, ca, scale>>

\* a step of the surface in which the host keeps its references and nothing
\* is counted
Uncounted == UNCHANGED <<host_refs, calls, frames>>

\* one operation of the caller on a surface constructed from a handle in hs,
\* the arguments of resize drawn from dims
Op(hs, dims) ==
    \/ (\E hd \in hs : new(hd)) /\ Uncounted
    \/ (\E d \in dims : resize(d[1], d[2])) /\ Uncounted
    \/ buffer_mut /\ Uncounted
    \/ buffer_mut_abort /\ Uncounted
    \/ (\E i \in 1..Capacity, p \in Pixel : write(i, p)) /\ Uncounted
    \/ present /\ Uncounted
    \/ present_panic /\ Uncounted
    \/ drop /\ Uncounted

Next == Op({ValidHandle}, Widths \X Heights)

Spec == Init /\ [][Next]_vars

\* the same, for a surface constructed from any handle, null or not
NextAnyHandle == Op(Handles, Widths \X Heights)

SpecAnyHandle == Init /\ [][NextAnyHandle]_vars

\* the operations with the returned buffer_mut calls and the presents that
\* found a buffer counted, at most MaxCalls buffer_mut calls in a run
NextCounted ==
    \/ new(ValidHandle) /\ Uncounted
    \/ (\E d \in SmallDims : resize(d[1], d[2])) /\ Uncounted
    \/ /\ calls < MaxCalls
       /\ buffer_mut
       /\ calls' = calls + 1
       /\ UNCHANGED <<host_refs, frames>>
    \/ buffer_mut_abort /\ Uncounted
    \/ (\E i \in 1..Capacity, p \in Pixel : write(i, p)) /\ Uncounted
    \/ /\ present
       /\ frames' = frames + (IF buffer # None THEN 1 ELSE 0)
       /\ UNCHANGED <<host_refs, calls>>
    \/ present_panic /\ Uncounted
    \/ drop /\ Uncounted

SpecCounted == Init /\ [][NextCounted]_vars

\* the window moves to a display with another backing scale factor
scale_change(s) ==
    /\ status \in {"none", "live", "dropped"}
    /\ window_rc > 0
    /\ s # scale
    /\ scale' = s
    /\ UNCHANGED <<status, op, result, window, window_rc, subviews, width, height,
                   buffer, heap, view, ca, last_len, host_refs, calls, frames>>

\* the host releases a reference to the window it handed to new; the handle
\* has to stay valid until new has returned
host_release ==
    /\ status \in {"live", "dropped"}
    /\ host_refs > 0
    /\ host_refs' = host_refs - 1
    /\ window_rc' = window_rc - 1
    /\ UNCHANGED <<status, op, result, window, subviews, width, height, buffer,
                   heap, view, ca, scale, last_len, calls, frames>>

\* the operations on a surface of a valid handle, interleaved with the steps
\* of the windowing system and the host
NextEnv ==
    \/ Op({ValidHandle}, SmallDims)
    \/ \E s \in Scales : scale_change(s)
    \/ host_release

SpecEnv == Init /\ [][NextEnv]_vars

----------------------------------------------------------------------------
(* Properties *)

\* the pixels of the surface's buffer, <<>> when it has none
BufferPixels == IF buffer = None THEN <<>> ELSE heap[buffer[1]]

\* the pixels behind the image the layer shows, <<>> when it shows none
FramePixels == IF ca.contents = None THEN <<>> ELSE heap[ca.contents[1].data]

HasColour(pixels) == \E i \in DOMAIN pixels : pixels[i] # 0

AllZero(pixels) == \A i \in DOMAIN pixels : pixels[i] = 0

\* C1: whenever buffer_mut has returned, it returned Ok with a view whose
\* length is width * height, the arguments of the most recent resize (0 and 0
\* if there was none), and the storage behind the view has that length.
C1_ViewLength ==
    view # None =>
        /\ result = "Ok"
        /\ ~ExceedsCapacity(width, height)
        /\ view[1].len = width * height
        /\ buffer = Some(view[1].vec)
        /\ Len(heap[view[1].vec]) = width * height

\* a 2 x 1 frame with written pixels was presented, the surface was resized
\* and buffer_mut returned a view of the new size
C1_Witness ==
    /\ op = "buffer_mut"
    /\ ca.contents # None
    /\ ca.contents[1].width = 2 /\ ca.contents[1].height = 1
    /\ HasColour(FramePixels)
    /\ width = 1 /\ height = 1
    /\ view # None /\ view[1].len = 1

\* C2 as stated: whenever the buffer is Some, its length is width * height.
C2_LengthAlways ==
    buffer # None =>
        /\ ~ExceedsCapacity(width, height)
        /\ Len(BufferPixels) = width * height

\* C2, amended: whenever the buffer is Some and no resize has happened since
\* the last buffer_mut, its length is width * height, and that is the length
\* the caller was given.
C2_LengthUnlessResized ==
    (buffer # None /\ last_len # None) =>
        /\ ~ExceedsCapacity(width, height)
        /\ Len(BufferPixels) = width * height
        /\ last_len[1] = width * height

\* buffer_mut returned on a 2 x 1 surface whose buffer holds one written
\* pixel and one zero
C2_Witness ==
    /\ op = "buffer_mut"
    /\ buffer # None /\ last_len # None
    /\ width = 2 /\ height = 1
    /\ Len(BufferPixels) = 2
    /\ BufferPixels[1] # 0 /\ BufferPixels[2] = 0

\* C3: a present that finds no buffer returns Ok and changes neither the
\* layer (contents, contents scale), nor the transaction state, nor width,
\* height, the absent buffer, the pixel storage or the window's retain count.
C3_PresentWithoutBuffer ==
    [][(present /\ buffer = None) =>
          /\ result' = "Ok"
          /\ status' = "live"
          /\ UNCHANGED <<ca, width, height, buffer, heap, window, window_rc,
                         subviews, scale>>]_vars

\* present returned Ok on a resized surface that never had a buffer: the
\* layer still shows nothing
C3_Witness ==
    /\ op = "present" /\ result = "Ok"
    /\ status = "live"
    /\ width = 2 /\ height = 1
    /\ buffer = None
    /\ ca = NewLayer

\* C4: present leaves no buffer behind, and the buffer_mut that finds no
\* buffer returns a view in which every element is 0, over storage that is
\* not the storage of the frame the layer shows.
C4_FreshZeroed ==
    [][/\ (present /\ buffer # None) => buffer' = None
       /\ (buffer_mut /\ buffer = None) =>
             /\ view' # None
             /\ AllZero(heap'[view'[1].vec])
             /\ \A k \in DOMAIN ca.contents : ca.contents[k].data # view'[1].vec]_vars

\* after a frame with written pixels was presented, buffer_mut returned a
\* non-empty view of zeros over other storage
C4_Witness ==
    /\ op = "buffer_mut"
    /\ ca.contents # None
    /\ HasColour(FramePixels)
    /\ view # None /\ view[1].len > 0
    /\ AllZero(BufferPixels)
    /\ buffer # Some(ca.contents[1].data)

\* C5: the storage behind the image the layer shows is never the surface's
\* buffer nor behind an outstanding view, and as long as the layer shows that
\* image no step changes those pixels: whenever the compositor reads the frame
\* it reads what present submitted.
C5_FrameImmutable ==
    [][\A k \in DOMAIN ca.contents :
          /\ buffer # Some(ca.contents[k].data)
          /\ \A j \in DOMAIN view : view[j].vec # ca.contents[k].data
          /\ ca'.contents = ca.contents =>
                heap'[ca.contents[k].data] = heap[ca.contents[k].data]]_vars

\* the caller writes into a new buffer while the layer shows a frame with
\* written pixels
C5_Witness ==
    /\ op = "write"
    /\ ca.contents # None
    /\ HasColour(FramePixels)
    /\ HasColour(BufferPixels)
    /\ BufferPixels # FramePixels

\* C6: new with a null window reference returns an error, retains no window
\* and attaches no subview.
C6_NullHandleIsError ==
    [][new(NullHandle) =>
          /\ result' = "Err"
          /\ status' # "live"
          /\ window_rc' = window_rc
          /\ subviews' = subviews]_vars

\* C7: new retains the window once, drop releases it once, no other step
\* changes the retain count, and once the surface is dropped the count is
\* what it was before construction.
C7_RetainRelease ==
    [][/\ new(ValidHandle) => window_rc' = window_rc + 1
       /\ drop => window_rc' = window_rc - 1
       /\ (status = "live" /\ status' # "dropped") => window_rc' = window_rc
       /\ status' = "dropped" => window_rc' = HostRefs]_vars

\* the surface was dropped after it had presented a frame
C7_Witness ==
    /\ status = "dropped"
    /\ window = "win"
    /\ window_rc = HostRefs
    /\ ca.contents # None

\* C8: resize(w, h) sets width and height to w and h, returns Ok, and leaves
\* the buffer (present or absent), its pixels, the layer, the transaction
\* state and the window's retain count as they were.
C8_ResizeMetadataOnly ==
    [][\A w \in Widths, h \in Heights :
          resize(w, h) =>
             /\ width' = w /\ height' = h
             /\ result' = "Ok"
             /\ UNCHANGED <<status, buffer, heap, ca, window, window_rc,
                            subviews, scale>>]_vars

\* resize returned while the surface holds a written buffer of another size
C8_Witness ==
    /\ op = "resize"
    /\ buffer # None
    /\ HasColour(BufferPixels)
    /\ Len(BufferPixels) = 2
    /\ width = 1 /\ height = 1

\* C9: after resize or present the surface is live and the call returned Ok.
C9_Infallible ==
    op \in {"resize", "present"} => (result = "Ok" /\ status = "live")

\* C10: a buffer_mut with no resize since the previous one returns a view of
\* the same length, and a buffer_mut made while the previous view is still
\* the caller's last access changes no pixel.
C10_IdempotentSizing ==
    [][buffer_mut =>
          /\ last_len # None => (view' # None /\ view'[1].len = last_len[1])
          /\ view # None => (heap' = heap /\ view' = view)]_vars

\* buffer_mut returned a view that still holds a pixel written through the
\* previous view
C10_Witness ==
    /\ op = "buffer_mut"
    /\ view # None /\ view[1].len = 2
    /\ last_len = Some(2)
    /\ BufferPixels[2] # 0

\* C11: the image the layer shows was built over pixel data whose length is
\* the image's declared width times its declared height.
C11_ImageDataLength ==
    \A k \in DOMAIN ca.contents :
        /\ ~ExceedsCapacity(ca.contents[k].width, ca.contents[k].height)
        /\ Len(heap[ca.contents[k].data]) =
              ca.contents[k].width * ca.contents[k].height

\* the calls of a present that submits a frame
PresentCalls ==
    <<"begin", "set_disable_actions", "set_contents_scale", "set_contents", "commit">>

\* C13: whenever an operation has returned, no transaction is open, no layer
\* property was ever set with implicit actions enabled, and the Core Animation
\* calls of the last submitting present were begin, set_disable_actions,
\* set_contents_scale, set_contents, commit, in that order, with one commit.
C13_TransactionScope ==
    /\ ca.tx_depth = 0
    /\ ~ca.disable_actions
    /\ ~ca.animated
    /\ ca.trace = (IF ca.contents = None THEN <<>> ELSE PresentCalls)

\* present returned after it submitted a frame in a transaction
C13_Witness ==
    /\ op = "present"
    /\ ca.contents # None
    /\ ca.trace = PresentCalls
    /\ ca.tx_depth = 0
    /\ ca.contents_scale = scale

\* C14: the stride of the image the layer shows is its width times 4, as a
\* mathematical integer.
C14_StrideExact ==
    \A k \in DOMAIN ca.contents :
        /\ ca.contents[k].bytes_per_row % 4 = 0
        /\ ca.contents[k].bytes_per_row \div 4 = ca.contents[k].width

\* C15: a buffer_mut that finds a buffer keeps it in place, gives it the
\* length width * height, keeps every element below the old length and sets
\* every element from the old length on to 0.
C15_ResizeInPlace ==
    [][(buffer_mut /\ buffer # None) =>
          /\ buffer' = buffer
          /\ Len(heap'[buffer[1]]) = width * height
          /\ \A i \in 1..Len(heap'[buffer[1]]) :
                heap'[buffer[1]][i] =
                   IF i <= Len(heap[buffer[1]]) THEN heap[buffer[1]][i] ELSE 0]_vars

\* buffer_mut returned on a 1 x 1 surface whose buffer keeps a written pixel
\* in its only element while the layer shows no frame
C15_Witness ==
    /\ op = "buffer_mut"
    /\ width = 1 /\ height = 1
    /\ last_len = Some(1)
    /\ BufferPixels = <<255 * 65536>>
    /\ ca.contents = None

\* C12: a present call leaves no buffer behind; a call that finds a buffer
\* submits one frame, an image over that buffer; a call that finds none
\* submits nothing; the frames submitted never outnumber the buffer_mut calls.
C12_PresentConsumes ==
    [][/\ (present \/ present_panic) => buffer' = None
       /\ ((present \/ present_panic) /\ buffer # None) =>
             /\ frames' = frames + 1
             /\ ca'.contents # None
             /\ ca'.contents[1].data = buffer[1]
       /\ (present /\ buffer = None) => (frames' = frames /\ ca' = ca)
       /\ frames' <= calls']_vars

\* C16: a present that submits a frame sets the layer's contents scale to
\* the window's backing scale factor of that moment.
C16_ScaleReadFresh ==
    [][(present /\ buffer # None /\ window # "nil") =>
          ca'.contents_scale = scale]_vars

\* present submitted a frame after the window had moved to a display of
\* scale 3
C16_Witness ==
    /\ op = "present"
    /\ ca.contents # None
    /\ scale = 3
    /\ ca.contents_scale = 3

\* C17: while the surface is live it holds one reference to the window beside
\* the host's, so the window's retain count is at least 1 whatever the host
\* has released; present, which needs a live surface, reads the scale of a
\* window that exists.
C17_WindowRetained ==
    (status = "live" /\ window # "nil") =>
        /\ window_rc = host_refs + 1
        /\ window_rc >= 1

\* present submitted a frame after the host had released its last reference
C17_Witness ==
    /\ status = "live"
    /\ op = "present"
    /\ host_refs = 0
    /\ window_rc = 1
    /\ ca.contents # None
    /\ ca.contents_scale = 3

====
